---- MODULE Spec2Model ----
(***************************************************************************)
(* Model of the compliance validator of utils/validate_prompt_compliance.  *)
(*                                                                         *)
(* A Python str is a sequence of characters; a character is a one-letter   *)
(* TLA+ string, and a character outside ASCII is written by name, e.g.     *)
(* "<e-acute>".  A Python list is a sequence, a Python set is a set, and a *)
(* Python dict is a function whose DOMAIN is the set of keys present.      *)
(***************************************************************************)
EXTENDS Integers, Sequences, FiniteSets, TLC

VARIABLES
    files,                  \* the resource files that exist next to the module
    imported,               \* TRUE once the import of the module has succeeded
    raised,                 \* the exception that ended the run uncaught, "" when none
    FRENCH_STOPWORDS,       \* module global, set of str
    STYLISTIC_EXPRESSIONS,  \* module global, set of str
    set_order,              \* the order in which iterating STYLISTIC_EXPRESSIONS yields it
    transitions,            \* the caller's group of transitions (list of str)
    violations,             \* what check_transition_group last returned (dict)
    checked,                \* TRUE once violations is the return value for transitions
    batch_outputs,          \* the caller's batch: list of (filename, transitions)
    results,                \* what validate_batch last returned (dict)
    validated,              \* TRUE once results is the return value for batch_outputs
    previous,               \* what validate_batch returned in the run before this one
    the_text,               \* the caller's text (str)
    the_words,              \* a list of words: what tokenize last returned, or the caller's
    tokenized,              \* TRUE once the_words is tokenize(the_text)
    window,                 \* the n last given to extract_ngrams
    the_ngrams,             \* what extract_ngrams last returned (list of str)
    extracted,              \* TRUE once the_ngrams is extract_ngrams(the_words, window)
    pending,                \* positions of the batch no worker has checked yet
    partial,                \* the accumulators of the workers, and the positions checked
    merged,                 \* the report assembled from the workers' checks (dict)
    log_stream,             \* the records logger.info has emitted, oldest first
    display_surface         \* the Streamlit elements on the page, top first

vars == << files, imported, raised, FRENCH_STOPWORDS, STYLISTIC_EXPRESSIONS,
           set_order, transitions, violations, checked, batch_outputs, results,
           validated, previous, the_text, the_words, tokenized, window, the_ngrams, extracted,
           pending, partial, merged, log_stream, display_surface >>

(***************************************************************************)
(* Bounds of the model.                                                    *)
(***************************************************************************)
MaxGroup == 3
MaxBatch == 2
MaxText == 3
MaxWords == 4
MaxWindow == 5
MaxDisplays == 2

(***************************************************************************)
(* Characters.                                                             *)
(***************************************************************************)
\* The characters of the model, in increasing code point order (the order of
\* Python's str comparison).
CodePointOrder ==
    << "\t", "\n", " ", "!", "\"", "#", "$", "%", "&", "'", "(", ")", "*",
       "+", ",", "-", ".", "/", "0", "1", "2", "3", "4", "5", "6", "7",
       "8", "9", ":", ";", "<", "=", ">", "?", "@", "A", "B", "C", "D",
       "E", "F", "G", "H", "I", "J", "K", "L", "M", "N", "O", "P", "Q",
       "R", "S", "T", "U", "V", "W", "X", "Y", "Z", "[", "\\", "]", "^",
       "_", "<grave>", "a", "b", "c", "d", "e", "f", "g", "h", "i", "j", "k",
       "l", "m", "n", "o", "p", "q", "r", "s", "t", "u", "v", "w", "x",
       "y", "z", "{", "|", "}", "~", "<nbsp>", "<laquo>", "<A-grave>",
       "<E-acute>", "<a-grave>", "<e-acute>", "<e-circ>", "<rsquo>" >>

Chars == { CodePointOrder[i] : i \in DOMAIN CodePointOrder }

ord == [c \in Chars |-> CHOOSE i \in DOMAIN CodePointOrder : CodePointOrder[i] = c]

\* string.punctuation
punctuation ==
    { "!", "\"", "#", "$", "%", "&", "'", "(", ")", "*", "+", ",", "-",
      ".", "/", ":", ";", "<", "=", ">", "?", "@", "[", "\\", "]", "^",
      "_", "<grave>", "{", "|", "}", "~" }

\* the characters str.split() and str.strip() take for whitespace
whitespace == { "\t", "\n", " ", "<nbsp>" }

UpperCase ==
    << "A", "B", "C", "D", "E", "F", "G", "H", "I", "J", "K", "L", "M",
       "N", "O", "P", "Q", "R", "S", "T", "U", "V", "W", "X", "Y", "Z",
       "<A-grave>", "<E-acute>" >>

LowerCase ==
    << "a", "b", "c", "d", "e", "f", "g", "h", "i", "j", "k", "l", "m",
       "n", "o", "p", "q", "r", "s", "t", "u", "v", "w", "x", "y", "z",
       "<a-grave>", "<e-acute>" >>

lower_char ==
    [c \in Chars |->
        IF \E i \in DOMAIN UpperCase : UpperCase[i] = c
        THEN LowerCase[CHOOSE i \in DOMAIN UpperCase : UpperCase[i] = c]
        ELSE c]

\* str.lower()
lower(text) == <<>> \o [i \in 1..Len(text) |-> lower_char[text[i]]]

\* the characters the regular expression \w matches
word_chars ==
    (Chars \ (punctuation \cup whitespace \cup {"<laquo>", "<rsquo>"})) \cup {"_"}

(***************************************************************************)
(* Python's str and list operations.                                       *)
(***************************************************************************)
\* a < b on str: lexicographic on code points, a proper prefix being smaller
RECURSIVE str_lt(_, _)
str_lt(a, b) ==
    IF b = <<>> THEN FALSE
    ELSE IF a = <<>> THEN TRUE
    ELSE IF a[1] # b[1] THEN ord[a[1]] < ord[b[1]]
    ELSE str_lt(Tail(a), Tail(b))

\* a plausible bug: shorter strings first, as numbers would sort
RECURSIVE sorted_by_length(_)
sorted_by_length(s) ==
    IF s = {} THEN <<>>
    ELSE LET m == CHOOSE x \in s : \A y \in s \ {x} :
                      Len(x) < Len(y) \/ (Len(x) = Len(y) /\ str_lt(x, y))
         IN  <<m>> \o sorted_by_length(s \ {m})

\* sorted(list(s)) for a set s of str
RECURSIVE sorted(_)
sorted(s) ==
    IF s = {} THEN <<>>
    ELSE LET m == CHOOSE x \in s : \A y \in s \ {x} : str_lt(x, y)
         IN  <<m>> \o sorted(s \ {m})

\* str.strip()
RECURSIVE lstrip(_)
lstrip(text) ==
    IF text # <<>> /\ text[1] \in whitespace THEN lstrip(Tail(text)) ELSE text

RECURSIVE rstrip(_)
rstrip(text) ==
    IF text # <<>> /\ text[Len(text)] \in whitespace
    THEN rstrip(SubSeq(text, 1, Len(text) - 1))
    ELSE text

strip(text) == rstrip(lstrip(text))

\* str.split(): the maximal runs of non-whitespace characters, in order
RECURSIVE split_from(_, _, _)
split_from(text, i, word) ==
    IF i > Len(text) THEN (IF word = <<>> THEN <<>> ELSE <<word>>)
    ELSE IF text[i] \in whitespace
         THEN (IF word = <<>> THEN <<>> ELSE <<word>>) \o split_from(text, i + 1, <<>>)
         ELSE split_from(text, i + 1, Append(word, text[i]))

split(text) == split_from(text, 1, <<>>)

\* ' '.join(words)
RECURSIVE join(_)
join(words) ==
    IF words = <<>> THEN <<>>
    ELSE IF Len(words) = 1 THEN words[1]
    ELSE words[1] \o <<" ">> \o join(Tail(words))

\* the concatenation of a list of lists
RECURSIVE concat_from(_, _)
concat_from(lists, i) ==
    IF i > Len(lists) THEN <<>> ELSE lists[i] \o concat_from(lists, i + 1)

concat(lists) == concat_from(lists, 1)

\* Counter(items)[x]
count_of(items, x) == Cardinality({ i \in DOMAIN items : items[i] = x })

\* the keys of Counter(items), in the order of items() (first insertion)
RECURSIVE counter_keys(_)
counter_keys(items) ==
    IF items = <<>> THEN <<>>
    ELSE LET rest == counter_keys(SubSeq(items, 1, Len(items) - 1))
             x == items[Len(items)]
         IN  IF \E i \in DOMAIN rest : rest[i] = x THEN rest ELSE Append(rest, x)

elements(list) == { list[i] : i \in DOMAIN list }

\* dict: d[k] = v
put(d, k, v) == [j \in DOMAIN d \cup {k} |-> IF j = k THEN v ELSE d[j]]

(***************************************************************************)
(* The resources read when the module is imported.  A file is the list of  *)
(* its lines, each with its line end.                                      *)
(***************************************************************************)
\* the files the import opens, next to the module
stopwords_name == "french_stopwords.txt"
stylistic_name == "stylistic_patterns.txt"
ResourceFiles == { stopwords_name, stylistic_name }

\* open(filepath, 'r', encoding='utf-8') raises FileNotFoundError
open_raises(name, fs) == name \notin fs

\* a global of a module that is not imported
unbound == { <<"<unbound>">> }

\* contents french_stopwords.txt may have
StopwordFiles ==
    { << <<"p","a","r","\n">>, <<"e","n","\n">>, <<"d","e","\n">>,
         <<"p","o","u","r","\n">>, <<"\n">>, <<"l","\n">>,
         <<"n","o","u","s","\n">>, <<"u","n","e","\n">> >>,
      << <<"d","e","\n">>, <<"e","n","\n">>, <<" "," ","\n">>,
         <<"t","e","m","p","s","\n">> >> }

\* contents of stylistic_patterns.txt
StylisticFile ==
    << <<"E","n"," ","c","o","n","c","l","u","s","i","o","n","\n">>,
       <<"\n">>,
       <<"d","e"," ","t","e","m","p","s"," ","e","n"," ","\n">> >>

load_stopwords(f) ==
    { strip(f[i]) : i \in { j \in DOMAIN f : strip(f[j]) # <<>> } }

load_stylistic_expressions(f) ==
    { lower(strip(f[i])) : i \in { j \in DOMAIN f : strip(f[j]) # <<>> } }

\* the orders in which iterating a set may yield its elements
iteration_orders(s) ==
    { o \in [1..Cardinality(s) -> s] : \A x \in s : \E i \in DOMAIN o : o[i] = x }

(***************************************************************************)
(* tokenize and extract_ngrams.                                            *)
(***************************************************************************)
\* None, a value that is no str
None == <<"<None>">>

\* text.replace of a value that is no str raises AttributeError
tokenize_raises(text) == text = None

\* text.replace("'", " ")
replace_apostrophes(text) ==
    <<>> \o [i \in 1..Len(text) |-> IF text[i] = "'" THEN " " ELSE text[i]]

\* text.translate(str.maketrans('', '', string.punctuation))
remove_punctuation(text) == SelectSeq(text, LAMBDA c : c \notin punctuation)

\* a plausible bug: the apostrophes replaced inside each word, after the split
tokenize_late_apostrophes(text) ==
    LET kept == SelectSeq(text, LAMBDA c : c \notin punctuation \ {"'"})
        pieces == split(lower(kept))
        words == <<>> \o [i \in DOMAIN pieces |-> strip(replace_apostrophes(pieces[i]))]
    IN  SelectSeq(words, LAMBDA word : word # <<>>)

tokenize(text) ==
    LET cleaned_text == lower(remove_punctuation(replace_apostrophes(text)))
        pieces == split(cleaned_text)
        words == <<>> \o [i \in DOMAIN pieces |-> strip(pieces[i])]
    IN  SelectSeq(words, LAMBDA word : word # <<>>)

\* words[i:i+n], i counted from 0, for 0 <= i and 0 <= n
slice(words, i, n) ==
    SubSeq(words, i + 1, IF i + n <= Len(words) THEN i + n ELSE Len(words))

\* a plausible bug: range(len(words) - n), the last window lost
extract_ngrams_short(words, n) ==
    <<>> \o [k \in 1..(Len(words) - n) |-> join(slice(words, k - 1, n))]

extract_ngrams(words, n) ==
    <<>> \o [k \in 1..(Len(words) - n + 1) |-> join(slice(words, k - 1, n))]

(***************************************************************************)
(* check_stylistic_patterns.                                               *)
(***************************************************************************)
\* a plausible bug: an n-gram counted once for each transition that holds it
all_ngrams_distinct(ts) ==
    concat([i \in DOMAIN ts |->
        LET words == tokenize(ts[i])
        IN  counter_keys(extract_ngrams(words, 2) \o extract_ngrams(words, 3))])

all_ngrams(ts) ==
    concat([i \in DOMAIN ts |->
        LET words == tokenize(ts[i])
        IN  extract_ngrams(words, 2) \o extract_ngrams(words, 3)])

\* a plausible bug: count > 0 for count > 1
check_stylistic_patterns_once(ts) ==
    LET ngrams == all_ngrams(ts)
    IN  SelectSeq(set_order, LAMBDA expr : count_of(ngrams, expr) > 0)

check_stylistic_patterns(ts) ==
    LET ngrams == all_ngrams(ts)
    IN  SelectSeq(set_order, LAMBDA expr : count_of(ngrams, expr) > 1)

(***************************************************************************)
(* check_flexible_patterns.  A regular expression is kept as its source    *)
(* (the str the code reports) and as the list of its parts: a group of     *)
(* alternatives, a literal (one alternative) or \w+.                       *)
(***************************************************************************)
lit(s) == [kind |-> "alt", alts |-> {s}]
alt(s) == [kind |-> "alt", alts |-> s]
word_plus == [kind |-> "w+", alts |-> {}]

sur_dans_par == alt({ <<"s","u","r">>, <<"d","a","n","s">>, <<"p","a","r">> })

patterns ==
    << [source |-> <<"(","s","u","r","|","d","a","n","s","|","p","a","r",")"," ",
                     "u","n"," ","a","u","t","r","e"," ","\\","w","+">>,
        parts  |-> << sur_dans_par,
                      lit(<<" ","u","n"," ","a","u","t","r","e"," ">>), word_plus >>],
       [source |-> <<"(","s","u","r","|","d","a","n","s","|","p","a","r",")"," ",
                     "l","a"," ","m","<e-circ>","m","e"," ","\\","w","+">>,
        parts  |-> << sur_dans_par,
                      lit(<<" ","l","a"," ","m","<e-circ>","m","e"," ">>), word_plus >>],
       [source |-> <<"(","s","u","r","|","d","a","n","s","|","p","a","r",")"," ",
                     "l","e"," ","m","<e-circ>","m","e"," ","\\","w","+">>,
        parts  |-> << sur_dans_par,
                      lit(<<" ","l","e"," ","m","<e-circ>","m","e"," ">>), word_plus >>],
       [source |-> <<"d","a","n","s"," ","l","\\","'","a","c","t","u","a","l","i","t",
                     "<e-acute>"," ","\\","w","+">>,
        parts  |-> << lit(<<"d","a","n","s"," ","l","'","a","c","t","u","a","l","i","t",
                            "<e-acute>"," ">>), word_plus >>],
       [source |-> <<"p","o","u","r"," ","(","t","e","r","m","i","n","e","r","|",
                     "c","o","n","c","l","u","r","e","|","f","i","n","i","r",")">>,
        parts  |-> << lit(<<"p","o","u","r"," ">>),
                      alt({ <<"t","e","r","m","i","n","e","r">>,
                            <<"c","o","n","c","l","u","r","e">>,
                            <<"f","i","n","i","r">> }) >>],
       [source |-> <<"(","s","i","g","n","a","l","o","n","s","|","s","a","c","h","e","z",
                     "|","n","o","u","s",")"," ","\\","w","+">>,
        parts  |-> << alt({ <<"s","i","g","n","a","l","o","n","s">>,
                            <<"s","a","c","h","e","z">>, <<"n","o","u","s">> }),
                      lit(<<" ">>), word_plus >>] >>

\* whether parts[k..] match text from position i on
RECURSIVE match_at(_, _, _, _)
match_at(parts, k, text, i) ==
    IF k > Len(parts) THEN TRUE
    ELSE IF parts[k].kind = "alt"
    THEN \E a \in parts[k].alts :
            /\ i + Len(a) - 1 <= Len(text)
            /\ SubSeq(text, i, i + Len(a) - 1) = a
            /\ match_at(parts, k + 1, text, i + Len(a))
    ELSE \E j \in i..Len(text) :
            /\ \A m \in i..j : text[m] \in word_chars
            /\ match_at(parts, k + 1, text, j + 1)

\* re.search(pattern, text) is not None
re_search(pattern, text) ==
    \E i \in 1..(Len(text) + 1) : match_at(pattern.parts, 1, text, i)

\* a plausible bug: the pattern searched in the transition as written
matches_raw(pattern, ts) ==
    SelectSeq(ts, LAMBDA transition : re_search(pattern, transition))

matches(pattern, ts) ==
    SelectSeq(ts, LAMBDA transition :
        LET text == lower(transition) IN re_search(pattern, text))

check_flexible_patterns(ts) ==
    LET violated == SelectSeq(patterns, LAMBDA pattern : Len(matches(pattern, ts)) > 1)
    IN  [i \in DOMAIN violated |-> violated[i].source]

(***************************************************************************)
(* check_transition_group.                                                 *)
(***************************************************************************)
enfin == <<"e","n","f","i","n">>

\* the dict without keys
empty_dict == <<>>

\* a plausible bug: a transition without tokens counted with the first word ""
first_words_blank(ts) ==
    <<>> \o [i \in DOMAIN ts |->
        LET words == tokenize(ts[i])
        IN  IF words # <<>> THEN words[1] ELSE <<>>]

first_words(ts) ==
    concat([i \in DOMAIN ts |->
        LET words == tokenize(ts[i])
        IN  IF words # <<>> THEN << words[1] >> ELSE <<>>])

\* a plausible bug: stopwords exempt, as in the content-word rule
repeated_first_words_no_stopwords(ts) ==
    LET fw == first_words(ts)
    IN  SelectSeq(counter_keys(fw),
                  LAMBDA word : count_of(fw, word) > 1 /\ word \notin FRENCH_STOPWORDS)

\* a plausible bug: count > 0 for count > 1
repeated_first_words_once(ts) ==
    LET fw == first_words(ts)
    IN  SelectSeq(counter_keys(fw), LAMBDA word : count_of(fw, word) > 0)

\* a plausible bug: only two transitions in a row counted as a repetition
repeated_first_words_adjacent(ts) ==
    LET fw == first_words(ts)
    IN  SelectSeq(counter_keys(fw),
                  LAMBDA word : \E i \in 1..(Len(fw) - 1) : fw[i] = word /\ fw[i + 1] = word)

\* a plausible bug: count == 2 for count > 1
repeated_first_words_twice(ts) ==
    LET fw == first_words(ts)
    IN  SelectSeq(counter_keys(fw), LAMBDA word : count_of(fw, word) = 2)

repeated_first_words(ts) ==
    LET fw == first_words(ts)
    IN  SelectSeq(counter_keys(fw), LAMBDA word : count_of(fw, word) > 1)

\* a plausible bug: words for words[1:], the first token not dropped
meaningful_words_all(words) ==
    SelectSeq(words, LAMBDA w : w # <<>> /\ w \notin FRENCH_STOPWORDS)

\* [w for w in words[1:] if w and w not in FRENCH_STOPWORDS]
meaningful_words(words) ==
    SelectSeq(Tail(words), LAMBDA w : w # <<>> /\ w \notin FRENCH_STOPWORDS)

all_content_words(ts) ==
    concat([i \in DOMAIN ts |->
        LET words == tokenize(ts[i])
        IN  IF Len(words) > 1 THEN meaningful_words(words) ELSE <<>>])

\* a plausible bug: one counter for the first words and the content words
repeated_content_words_merged(ts) ==
    LET cw == all_content_words(ts)
        aw == first_words(ts) \o cw
    IN  SelectSeq(counter_keys(cw), LAMBDA word : count_of(aw, word) > 1)

repeated_content_words(ts) ==
    LET cw == all_content_words(ts)
    IN  SelectSeq(counter_keys(cw), LAMBDA word : count_of(cw, word) > 1)

\* a plausible bug: a value already in the list not added again
add_repetition_dedup(d, found) ==
    IF found = <<>> THEN d
    ELSE IF "repetition" \in DOMAIN d
         THEN LET new == SelectSeq(found,
                             LAMBDA x : x \notin elements(d["repetition"]))
              IN  put(d, "repetition", d["repetition"] \o new)
         ELSE put(d, "repetition", found)

\* a plausible bug: the key set even when nothing was found
add_repetition_always(d, found) ==
    IF "repetition" \in DOMAIN d
    THEN put(d, "repetition", d["repetition"] \o found)
    ELSE put(d, "repetition", found)

\* if found: violations["repetition"] is extended by found, or set to it
add_repetition(d, found) ==
    IF found = <<>> THEN d
    ELSE IF "repetition" \in DOMAIN d
         THEN put(d, "repetition", d["repetition"] \o found)
         ELSE put(d, "repetition", found)

\* a plausible bug: the test on the position left out
enfin_loop_any(ts) ==
    \E i \in 0..(Len(ts) - 1) : enfin \in elements(tokenize(ts[i + 1]))

\* the loop over enumerate(transitions): whether it reaches its break
enfin_loop(ts) ==
    \E i \in 0..(Len(ts) - 1) :
        enfin \in elements(tokenize(ts[i + 1])) /\ i # Len(ts) - 1

add_enfin_misplaced(d, ts) ==
    IF enfin_loop(ts) THEN put(d, "enfin_misplaced", TRUE) ELSE d

check_transition_group(ts) ==
    LET v1 == add_repetition(empty_dict, repeated_first_words(ts))
        v2 == add_repetition(v1, repeated_content_words(ts))
        v3 == add_repetition(v2, check_stylistic_patterns(ts))
        v4 == add_repetition(v3, check_flexible_patterns(ts))
    IN  add_enfin_misplaced(v4, ts)

\* the first loop tokenizes every transition; nothing catches the exception
check_transition_group_raises(ts) == \E i \in DOMAIN ts : tokenize_raises(ts[i])

(***************************************************************************)
(* validate_batch.                                                         *)
(***************************************************************************)
\* dict.get(key), taken for its truth value
get_true(d, k) == k \in DOMAIN d /\ d[k] = TRUE

\* the state of the loop before its first iteration
loop_start ==
    [details |-> <<>>,
     repetition_violations |-> {},
     repetition_affected_outputs |-> {},
     enfin_misplaced_outputs |-> {}]

\* a plausible bug: the violated words taken from the first affected output only
track_repetition_first(acc, filename, v) ==
    IF "repetition" \in DOMAIN v
    THEN [acc EXCEPT !.repetition_affected_outputs = @ \cup {filename},
                     !.repetition_violations =
                         IF @ = {} THEN elements(v["repetition"]) ELSE @]
    ELSE acc

\* a plausible bug: the key recorded for any violation, whatever its kind
track_repetition_any(acc, filename, v) ==
    IF DOMAIN v # {}
    THEN [acc EXCEPT !.repetition_violations =
                        @ \cup (IF "repetition" \in DOMAIN v
                                THEN elements(v["repetition"]) ELSE {}),
                     !.repetition_affected_outputs = @ \cup {filename}]
    ELSE acc

track_repetition(acc, filename, v) ==
    IF "repetition" \in DOMAIN v
    THEN [acc EXCEPT !.repetition_violations = @ \cup elements(v["repetition"]),
                     !.repetition_affected_outputs = @ \cup {filename}]
    ELSE acc

track_enfin_misplaced(acc, filename, v) ==
    IF get_true(v, "enfin_misplaced")
    THEN [acc EXCEPT !.enfin_misplaced_outputs = @ \cup {filename}]
    ELSE acc

\* a plausible bug: one entry per key, a key seen before being skipped
add_details_once(acc, filename, ts, v) ==
    IF \E i \in DOMAIN acc.details : acc.details[i].output_id = filename
    THEN acc
    ELSE [acc EXCEPT !.details =
            Append(@, [output_id |-> filename, transitions |-> ts, violations |-> v])]

add_details(acc, filename, ts, v) ==
    [acc EXCEPT !.details =
        Append(@, [output_id |-> filename, transitions |-> ts, violations |-> v])]

\* one iteration of the loop
loop_body(acc, filename, ts) ==
    LET v == check_transition_group(ts)
    IN  add_details(
            track_enfin_misplaced(track_repetition(acc, filename, v), filename, v),
            filename, ts, v)

RECURSIVE loop(_, _)
loop(acc, batch) ==
    IF batch = <<>> THEN acc
    ELSE loop(loop_body(acc, batch[1][1], batch[1][2]), Tail(batch))

\* a plausible bug: the entries of details with violations counted
total_violations_entries(acc) ==
    Cardinality({ i \in DOMAIN acc.details : acc.details[i].violations # empty_dict })

\* a plausible bug: the two counts added
total_violations_sum(acc) ==
    Cardinality(acc.repetition_affected_outputs) + Cardinality(acc.enfin_misplaced_outputs)

total_violations(acc) ==
    Cardinality(acc.repetition_affected_outputs \cup acc.enfin_misplaced_outputs)

repetition_summary(acc) ==
    [count |-> Cardinality(acc.repetition_affected_outputs),
     affected_outputs |-> sorted(acc.repetition_affected_outputs),
     violated_words |-> sorted(acc.repetition_violations)]

enfin_misplaced_summary(acc) ==
    [count |-> Cardinality(acc.enfin_misplaced_outputs),
     affected_outputs |-> sorted(acc.enfin_misplaced_outputs)]

\* the loop checks every group; nothing catches the exception
validate_batch_raises(batch) ==
    \E i \in DOMAIN batch : check_transition_group_raises(batch[i][2])

validate_batch(batch) ==
    LET acc == loop(loop_start, batch)
    IN  [total_outputs |-> Len(batch),
         outputs_with_violations |-> total_violations(acc),
         violations_summary |->
             [repetition |-> repetition_summary(acc),
              enfin_misplaced |-> enfin_misplaced_summary(acc)],
         details |-> acc.details]

(***************************************************************************)
(* display_validation_results.  A log record is kept as the literal text   *)
(* of the message and the object the f-string formats into it; an element  *)
(* of the page as the Streamlit call, its label, the object it is given    *)
(* and, for an expander, the elements inside it.  st.columns places        *)
(* elements side by side and adds none.                                    *)
(***************************************************************************)
\* ', '.join(words)
RECURSIVE comma_join(_)
comma_join(words) ==
    IF words = <<>> THEN <<>>
    ELSE IF Len(words) = 1 THEN words[1]
    ELSE words[1] \o <<",", " ">> \o comma_join(Tail(words))

\* logger.info(text), logger.info(f"text{object}")
info(text, object) == [text |-> text, object |-> object]

\* st.subheader, st.metric, st.write, st.success, st.expander
element(call, label, object, inside) ==
    [call |-> call, label |-> label, object |-> object, inside |-> inside]

\* the log records before the loop over details
log_summary(r) ==
    << info("=== Validation Results ===", <<>>),
       info("Total Outputs: ", r.total_outputs),
       info("Outputs with Violations: ", r.outputs_with_violations),
       info("=== Violations Summary ===", <<>>),
       info("Repetition Violations:", <<>>),
       info("Count: ", r.violations_summary.repetition.count),
       info("Affected Files: ", r.violations_summary.repetition.affected_outputs),
       info("Violated Words: ",
            comma_join(r.violations_summary.repetition.violated_words)),
       info("Enfin Misplacement:", <<>>),
       info("Count: ", r.violations_summary.enfin_misplaced.count),
       info("Affected Files: ", r.violations_summary.enfin_misplaced.affected_outputs),
       info("=== Detailed Analysis ===", <<>>) >>

\* a plausible bug: the marker chosen on the repetition key alone
log_detail_repetition_only(detail) ==
    << info("File: ", detail.output_id),
       info("Transitions: ", detail.transitions),
       IF "repetition" \in DOMAIN detail.violations
       THEN info("Violations: ", detail.violations)
       ELSE info("No violations found", <<>>) >>

\* the log records of one pass of the loop over details
log_detail(detail) ==
    << info("File: ", detail.output_id),
       info("Transitions: ", detail.transitions),
       IF detail.violations # empty_dict
       THEN info("Violations: ", detail.violations)
       ELSE info("No violations found", <<>>) >>

\* the log records of one call
log_records(r) ==
    log_summary(r) \o concat([i \in DOMAIN r.details |-> log_detail(r.details[i])])

\* the elements before the loop over details
page_summary(r) ==
    << element("subheader", "Validation Results", <<>>, <<>>),
       element("metric", "Total Files", r.total_outputs, <<>>),
       element("metric", "Files with Violations", r.outputs_with_violations, <<>>),
       element("subheader", "Violations Summary", <<>>, <<>>),
       element("write", "**Repetition Violations:**", <<>>, <<>>),
       element("metric", "Count", r.violations_summary.repetition.count, <<>>),
       element("write", "Affected Files:",
               r.violations_summary.repetition.affected_outputs, <<>>),
       element("write", "Violated Words:",
               comma_join(r.violations_summary.repetition.violated_words), <<>>),
       element("write", "**Enfin Misplacement:**", <<>>, <<>>),
       element("metric", "Count", r.violations_summary.enfin_misplaced.count, <<>>),
       element("write", "Affected Files:",
               r.violations_summary.enfin_misplaced.affected_outputs, <<>>),
       element("subheader", "Detailed Analysis", <<>>, <<>>) >>

\* the expander of one pass of the loop over details
page_detail(detail) ==
    element("expander", "File: ", detail.output_id,
            << element("write", "**Transitions:**", detail.transitions, <<>>),
               IF detail.violations # empty_dict
               THEN element("write", "**Violations:**", detail.violations, <<>>)
               ELSE element("success", "No violations found", <<>>, <<>>) >>)

\* the elements of one call
page_elements(r) ==
    page_summary(r) \o (<<>> \o [i \in DOMAIN r.details |-> page_detail(r.details[i])])

(***************************************************************************)
(* validate_batch as a map-then-aggregate: workers run the loop body on    *)
(* the outputs in any order, then the report is assembled.                 *)
(***************************************************************************)
\* no output checked yet
workers_start == [acc |-> loop_start, order |-> <<>>]

\* a worker has run the loop body on the output at position i
worker_check(p, batch, i) ==
    [acc |-> loop_body(p.acc, batch[i][1], batch[i][2]),
     order |-> Append(p.order, i)]

\* the entry of details a worker made for the output at position i
detail_of(p, i) ==
    p.acc.details[CHOOSE k \in DOMAIN p.order : p.order[k] = i]

\* the report: the summary lists sorted, details put back in input order
merge_report(p, batch) ==
    [total_outputs |-> Len(batch),
     outputs_with_violations |-> total_violations(p.acc),
     violations_summary |->
         [repetition |-> repetition_summary(p.acc),
          enfin_misplaced |-> enfin_misplaced_summary(p.acc)],
     details |-> <<>> \o [i \in DOMAIN batch |-> detail_of(p, i)]]

(***************************************************************************)
(* The callers' inputs.                                                    *)
(***************************************************************************)
\* "Par ailleurs,"
ParAilleurs == <<"P","a","r"," ","a","i","l","l","e","u","r","s",",">>
\* "par contre, enfin"
ParContreEnfin ==
    <<"p","a","r"," ","c","o","n","t","r","e",","," ","e","n","f","i","n">>
\* "Enfin, en conclusion"
EnfinEnConclusion ==
    <<"E","n","f","i","n",","," ","e","n"," ","c","o","n","c","l","u","s","i","o","n">>
\* "En conclusion, pour finir"
EnConclusionPourFinir ==
    <<"E","n"," ","c","o","n","c","l","u","s","i","o","n",","," ",
      "p","o","u","r"," ","f","i","n","i","r">>
\* "D'ailleurs, pour conclure"
DAilleursPourConclure ==
    <<"D","'","a","i","l","l","e","u","r","s",","," ","p","o","u","r"," ",
      "c","o","n","c","l","u","r","e">>
\* "De temps en temps,"
DeTempsEnTemps ==
    <<"D","e"," ","t","e","m","p","s"," ","e","n"," ","t","e","m","p","s",",">>
\* "..."
Ellipsis == <<".",".",".">>

\* the transitions a caller may pass
Texts ==
    { ParAilleurs, ParContreEnfin, EnfinEnConclusion, EnConclusionPourFinir,
      DAilleursPourConclure, DeTempsEnTemps, Ellipsis }

\* "En conclusion,"
EnConclusion == <<"E","n"," ","c","o","n","c","l","u","s","i","o","n",",">>
\* "en conclusion, en conclusion"
EnConclusionTwice ==
    <<"e","n"," ","c","o","n","c","l","u","s","i","o","n",","," ",
      "e","n"," ","c","o","n","c","l","u","s","i","o","n">>
\* "Pour finir,"
PourFinir == <<"P","o","u","r"," ","f","i","n","i","r",",">>
\* "Sachez pour Finir"
SachezPourFinir ==
    <<"S","a","c","h","e","z"," ","p","o","u","r"," ","F","i","n","i","r">>
\* "Nous terminons"
NousTerminons == <<"N","o","u","s"," ","t","e","r","m","i","n","o","n","s">>
\* "Dans la meme veine", with e circumflex
DansLaMemeVeine ==
    <<"D","a","n","s"," ","l","a"," ","m","<e-circ>","m","e"," ","v","e","i","n","e">>

\* the transitions a caller may pass, worded for the two pattern rules
PatternTexts ==
    { EnConclusion, EnConclusionTwice, PourFinir, SachezPourFinir, NousTerminons,
      DansLaMemeVeine }

\* the characters a caller's text is made of: letters of both cases, the
\* space and the no-break space, the apostrophe, the comma and the
\* typographic apostrophe (U+2019)
Alphabet == { "a", "B", " ", "<nbsp>", "'", ",", "<rsquo>" }

\* the words a caller may pass to extract_ngrams: "l", "ecole" with e acute
Vocabulary == { <<"l">>, <<"<e-acute>","c","o","l","e">> }

\* "", and " \t" followed by a no-break space
Empty == <<>>
Blank == <<" ", "\t", "<nbsp>">>

\* the groups a caller may put in a batch, at the edges of the input: no
\* transition, transitions without a word, a transition that is no str
EdgeGroups ==
    { <<>>,
      << Blank >>,
      << Empty, Blank >>,
      << ParAilleurs, None >>,
      << ParAilleurs, ParContreEnfin >> }

\* the groups a caller may put in a batch
Groups ==
    { << ParAilleurs, EnConclusionPourFinir >>,
      << ParAilleurs, ParContreEnfin >>,
      << EnfinEnConclusion, ParAilleurs >>,
      << ParContreEnfin, EnfinEnConclusion, EnConclusionPourFinir >> }

\* the keys a caller may give: file names and sequence numbers, as str
Filenames ==
    { <<"b",".","t","x","t">>, <<"1","0">>, <<"2">> }

\* the groups and keys of a batch handed to workers
WorkerGroups ==
    { << ParAilleurs, ParContreEnfin >>,
      << ParContreEnfin, EnfinEnConclusion, EnConclusionPourFinir >> }
WorkerFilenames == { <<"1","0">>, <<"2">> }

\* the groups of a batch validated in two runs
RunGroups ==
    { << ParAilleurs, ParContreEnfin >>,
      << EnConclusionTwice, DeTempsEnTemps, DeTempsEnTemps >> }

\* "Par ailleurs, on annonce que"
ParAilleursOnAnnonce ==
    <<"P","a","r"," ","a","i","l","l","e","u","r","s",","," ","o","n"," ",
      "a","n","n","o","n","c","e"," ","q","u","e">>
\* "Sur le plan securitaire,", with e acute
SurLePlanSecuritaire ==
    <<"S","u","r"," ","l","e"," ","p","l","a","n"," ",
      "s","<e-acute>","c","u","r","i","t","a","i","r","e",",">>
\* "Enfin, une note finale"
EnfinUneNoteFinale ==
    <<"E","n","f","i","n",","," ","u","n","e"," ","n","o","t","e"," ",
      "f","i","n","a","l","e">>

\* the transitions of a group with nothing to report
BaselineTexts == { ParAilleursOnAnnonce, SurLePlanSecuritaire, EnfinUneNoteFinale }

\* "Dans un autre registre,"
DansUnAutreRegistre ==
    <<"D","a","n","s"," ","u","n"," ","a","u","t","r","e"," ",
      "r","e","g","i","s","t","r","e",",">>
\* "Dans la meme region,", with e circumflex and e acute
DansLaMemeRegion ==
    <<"D","a","n","s"," ","l","a"," ","m","<e-circ>","m","e"," ",
      "r","<e-acute>","g","i","o","n",",">>
\* "Encore dans le domaine economique,", with e acute
EncoreDansLeDomaine ==
    <<"E","n","c","o","r","e"," ","d","a","n","s"," ","l","e"," ",
      "d","o","m","a","i","n","e"," ","<e-acute>","c","o","n","o","m","i","q","u","e",",">>

\* the transitions of the fourth group of the demo batch
RegistreTexts == { DansUnAutreRegistre, DansLaMemeRegion, EncoreDansLeDomaine }

\* the fourth group of the demo batch
RegistreGroup == << DansUnAutreRegistre, DansLaMemeRegion, EncoreDansLeDomaine >>

\* words french_stopwords.txt may or may not list: "dans", "un", "la", "le"
ListedOrNot ==
    << <<"d","a","n","s">>, <<"u","n">>, <<"l","a">>, <<"l","e">> >>

\* contents french_stopwords.txt may have: each of the words listed or not
RegistreStopwordFiles ==
    { [i \in DOMAIN ListedOrNot |->
          IF i \in S THEN ListedOrNot[i] \o <<"\n">> ELSE <<"\n">>] :
      S \in SUBSET (DOMAIN ListedOrNot) }

\* "Prenons la direction de Paris,"
PrenonsParis ==
    <<"P","r","e","n","o","n","s"," ","l","a"," ","d","i","r","e","c","t","i","o","n"," ",
      "d","e"," ","P","a","r","i","s",",">>
\* "Ensuite, prenons la direction de Lyon,"
EnsuitePrenonsLyon ==
    <<"E","n","s","u","i","t","e",","," ","p","r","e","n","o","n","s"," ","l","a"," ",
      "d","i","r","e","c","t","i","o","n"," ","d","e"," ","L","y","o","n",",">>
\* "Enfin, une note sur Marseille"
EnfinUneNoteSurMarseille ==
    <<"E","n","f","i","n",","," ","u","n","e"," ","n","o","t","e"," ","s","u","r"," ",
      "M","a","r","s","e","i","l","l","e">>
\* "Pour finir, pour finir"
PourFinirTwice ==
    <<"P","o","u","r"," ","f","i","n","i","r",","," ","p","o","u","r"," ","f","i","n","i","r">>

\* the transitions of the second group of the demo batch, one whose first
\* token comes again after it, and one that holds an expression twice
DirectionTexts ==
    { PrenonsParis, EnsuitePrenonsLyon, EnfinUneNoteSurMarseille, PourFinirTwice,
      EnConclusionTwice }

\* transitions that share first words, content words, an expression and a
\* template, and two with "enfin"
OrderTexts ==
    { ParContreEnfin, EnfinEnConclusion, EnConclusionPourFinir }

\* the groups of a batch that is validated and displayed
DisplayGroups ==
    { << ParAilleurs, EnConclusionPourFinir >>,
      << ParAilleurs, ParContreEnfin >>,
      << EnfinEnConclusion, ParAilleurs >> }

\* the batches a caller may hold
Batches ==
    { <<>>,
      << << <<"2">>, << ParAilleurs, ParContreEnfin >> >> >>,
      << << <<"1","0">>, << EnfinEnConclusion, ParAilleurs >> >>,
         << <<"2">>, << ParContreEnfin, EnfinEnConclusion, EnConclusionPourFinir >> >> >> }

(***************************************************************************)
(* The state machine.                                                      *)
(***************************************************************************)
globals == << FRENCH_STOPWORDS, STYLISTIC_EXPRESSIONS, set_order >>
group_vars == << transitions, violations, checked >>
batch_vars == << batch_outputs, results, validated, previous >>
text_vars == << the_text, the_words, tokenized, window, the_ngrams, extracted >>
worker_vars == << pending, partial, merged >>
sink_vars == << log_stream, display_surface >>

\* the two loads of the import, when both files can be opened
Loaded ==
    /\ FRENCH_STOPWORDS \in { load_stopwords(f) : f \in StopwordFiles }
    /\ STYLISTIC_EXPRESSIONS = load_stylistic_expressions(StylisticFile)
    /\ set_order \in iteration_orders(load_stylistic_expressions(StylisticFile))

\* nothing passed to the validator yet
NoCalls ==
    /\ raised = ""
    /\ transitions = <<>>
    /\ violations = empty_dict
    /\ checked = FALSE
    /\ batch_outputs = <<>>
    /\ results = empty_dict
    /\ validated = FALSE
    /\ previous = empty_dict
    /\ the_text = <<>>
    /\ the_words = <<>>
    /\ tokenized = FALSE
    /\ window = 0
    /\ the_ngrams = <<>>
    /\ extracted = FALSE
    /\ pending = {}
    /\ partial = workers_start
    /\ merged = empty_dict
    /\ log_stream = <<>>
    /\ display_surface = <<>>

\* the import of the module has succeeded, nothing validated yet
Init ==
    /\ files = ResourceFiles
    /\ imported = TRUE
    /\ Loaded
    /\ NoCalls

\* the module is about to be imported; either resource may be missing
InitImport ==
    /\ files \in SUBSET ResourceFiles
    /\ imported = FALSE
    /\ FRENCH_STOPWORDS = unbound
    /\ STYLISTIC_EXPRESSIONS = unbound
    /\ set_order = <<>>
    /\ NoCalls

\* the callers hold their inputs, nothing validated yet
InitCalls ==
    /\ files = ResourceFiles
    /\ imported = TRUE
    /\ Loaded
    /\ raised = ""
    /\ transitions \in Groups
    /\ violations = empty_dict
    /\ checked = FALSE
    /\ batch_outputs \in Batches
    /\ results = empty_dict
    /\ validated = FALSE
    /\ previous = empty_dict
    /\ the_text \in Texts
    /\ the_words = <<>>
    /\ tokenized = FALSE
    /\ window = 0
    /\ the_ngrams = <<>>
    /\ extracted = FALSE
    /\ pending = {}
    /\ partial = workers_start
    /\ merged = empty_dict
    /\ log_stream = <<>>
    /\ display_surface = <<>>

\* a plausible bug: a resource that cannot be opened is read as an empty file
Import_fallback ==
    /\ ~imported
    /\ raised = ""
    /\ imported' = TRUE
    /\ IF stopwords_name \in files
       THEN FRENCH_STOPWORDS' \in { load_stopwords(f) : f \in StopwordFiles }
       ELSE FRENCH_STOPWORDS' = {}
    /\ IF stylistic_name \in files
       THEN /\ STYLISTIC_EXPRESSIONS' = load_stylistic_expressions(StylisticFile)
            /\ set_order' \in iteration_orders(load_stylistic_expressions(StylisticFile))
       ELSE /\ STYLISTIC_EXPRESSIONS' = {}
            /\ set_order' = <<>>
    /\ UNCHANGED << files, sink_vars, raised, group_vars, batch_vars, text_vars, worker_vars >>

\* import utils.validate_prompt_compliance: the two loads run at import, and
\* an exception of either leaves the module not imported
Import ==
    /\ ~imported
    /\ raised = ""
    /\ IF open_raises(stopwords_name, files) \/ open_raises(stylistic_name, files)
       THEN /\ raised' = "FileNotFoundError"
            /\ UNCHANGED << imported, globals >>
       ELSE /\ imported' = TRUE
            /\ FRENCH_STOPWORDS' \in { load_stopwords(f) : f \in StopwordFiles }
            /\ STYLISTIC_EXPRESSIONS' = load_stylistic_expressions(StylisticFile)
            /\ set_order' \in iteration_orders(load_stylistic_expressions(StylisticFile))
            /\ UNCHANGED raised
    /\ UNCHANGED << files, sink_vars, group_vars, batch_vars, text_vars, worker_vars >>

\* the caller gets one more transition for its group
Generate(t) ==
    /\ Len(transitions) < MaxGroup
    /\ transitions' = Append(transitions, t)
    /\ violations' = empty_dict
    /\ checked' = FALSE
    /\ UNCHANGED << files, sink_vars, imported, raised, globals, batch_vars, text_vars,
                    worker_vars >>

\* violations = check_transition_group(transitions)
CheckGroup ==
    /\ imported
    /\ raised = ""
    /\ ~checked
    /\ IF check_transition_group_raises(transitions)
       THEN /\ raised' = "AttributeError"
            /\ UNCHANGED << violations, checked >>
       ELSE /\ violations' = check_transition_group(transitions)
            /\ checked' = TRUE
            /\ UNCHANGED raised
    /\ UNCHANGED << files, sink_vars, imported, globals, transitions, batch_vars, text_vars,
                    worker_vars >>

\* the caller appends (filename, group) to its batch
AddOutput(filename, group) ==
    /\ Len(batch_outputs) < MaxBatch
    /\ pending = {}
    /\ batch_outputs' = Append(batch_outputs, << filename, group >>)
    /\ results' = empty_dict
    /\ validated' = FALSE
    /\ previous' = empty_dict
    /\ partial' = workers_start
    /\ merged' = empty_dict
    /\ UNCHANGED << files, sink_vars, imported, raised, globals, group_vars, text_vars,
                    pending >>

\* a plausible bug: the loop takes the outputs off the caller's list
ValidateBatch_draining ==
    /\ imported
    /\ raised = ""
    /\ ~validated
    /\ ~validate_batch_raises(batch_outputs)
    /\ results' = validate_batch(batch_outputs)
    /\ validated' = TRUE
    /\ batch_outputs' = <<>>
    /\ UNCHANGED << files, sink_vars, imported, raised, globals, group_vars, previous,
                    text_vars, worker_vars >>

\* results = validate_batch(batch_outputs)
ValidateBatch ==
    /\ imported
    /\ raised = ""
    /\ ~validated
    /\ IF validate_batch_raises(batch_outputs)
       THEN /\ raised' = "AttributeError"
            /\ UNCHANGED << results, validated >>
       ELSE /\ results' = validate_batch(batch_outputs)
            /\ validated' = TRUE
            /\ UNCHANGED raised
    /\ UNCHANGED << files, sink_vars, imported, globals, group_vars, batch_outputs, previous,
                    text_vars, worker_vars >>

\* the process is run again on the same resources and the same batch: the
\* set of expressions is built anew, and iterating it may yield another order
Rerun ==
    /\ imported
    /\ raised = ""
    /\ validated
    /\ previous = empty_dict
    /\ previous' = results
    /\ results' = empty_dict
    /\ validated' = FALSE
    /\ set_order' \in iteration_orders(STYLISTIC_EXPRESSIONS)
    /\ UNCHANGED << files, sink_vars, imported, raised, FRENCH_STOPWORDS, STYLISTIC_EXPRESSIONS,
                    group_vars, batch_outputs, text_vars, worker_vars >>

\* the calls of display_validation_results so far
displays ==
    Cardinality({ i \in DOMAIN log_stream :
                     log_stream[i].text = "=== Validation Results ===" })

\* display_validation_results(results)
Display ==
    /\ imported
    /\ raised = ""
    /\ validated
    /\ displays < MaxDisplays
    /\ log_stream' = log_stream \o log_records(results)
    /\ display_surface' = display_surface \o page_elements(results)
    /\ UNCHANGED << files, imported, raised, globals, group_vars, batch_vars,
                    text_vars, worker_vars >>

\* the outputs of the batch are handed to the workers
Dispatch ==
    /\ imported
    /\ raised = ""
    /\ batch_outputs # <<>>
    /\ pending = {}
    /\ partial = workers_start
    /\ merged = empty_dict
    /\ pending' = DOMAIN batch_outputs
    /\ UNCHANGED << files, sink_vars, imported, raised, globals, group_vars, batch_vars,
                    text_vars, partial, merged >>

\* a worker checks the output at position i, whichever is still pending
CheckOne(i) ==
    /\ i \in pending
    /\ IF check_transition_group_raises(batch_outputs[i][2])
       THEN /\ raised' = "AttributeError"
            /\ UNCHANGED << pending, partial >>
       ELSE /\ partial' = worker_check(partial, batch_outputs, i)
            /\ pending' = pending \ {i}
            /\ UNCHANGED raised
    /\ UNCHANGED << files, sink_vars, imported, globals, group_vars, batch_vars, text_vars,
                    merged >>

\* every output is checked: the report is assembled
Merge ==
    /\ imported
    /\ raised = ""
    /\ pending = {}
    /\ Len(partial.order) = Len(batch_outputs)
    /\ merged = empty_dict
    /\ merged' = merge_report(partial, batch_outputs)
    /\ UNCHANGED << files, sink_vars, imported, raised, globals, group_vars, batch_vars,
                    text_vars, pending, partial >>

\* the caller's text gets one more character
Type(c) ==
    /\ Len(the_text) < MaxText
    /\ the_text' = Append(the_text, c)
    /\ the_words' = <<>>
    /\ tokenized' = FALSE
    /\ UNCHANGED << files, sink_vars, imported, raised, globals, group_vars, batch_vars,
                    window, the_ngrams, extracted, worker_vars >>

\* the_words = tokenize(the_text)
Tokenize ==
    /\ imported
    /\ raised = ""
    /\ ~tokenized
    /\ the_words' = tokenize(the_text)
    /\ tokenized' = TRUE
    /\ window' = 0
    /\ the_ngrams' = <<>>
    /\ extracted' = FALSE
    /\ UNCHANGED << files, sink_vars, imported, raised, globals, group_vars, batch_vars, the_text,
                    worker_vars >>

\* the caller's list of words gets one more word
AddWord(word) ==
    /\ Len(the_words) < MaxWords
    /\ the_words' = Append(the_words, word)
    /\ window' = 0
    /\ the_ngrams' = <<>>
    /\ extracted' = FALSE
    /\ UNCHANGED << files, sink_vars, imported, raised, globals, group_vars, batch_vars, the_text,
                    tokenized, worker_vars >>

\* the_ngrams = extract_ngrams(the_words, n)
ExtractNgrams(n) ==
    /\ imported
    /\ raised = ""
    /\ ~extracted
    /\ window' = n
    /\ the_ngrams' = extract_ngrams(the_words, n)
    /\ extracted' = TRUE
    /\ UNCHANGED << files, sink_vars, imported, raised, globals, group_vars, batch_vars, the_text,
                    the_words, tokenized, worker_vars >>

Next ==
    \/ \E t \in Texts : Generate(t)
    \/ CheckGroup

NextBatch ==
    \/ \E filename \in Filenames, group \in Groups : AddOutput(filename, group)
    \/ ValidateBatch

\* one group, checked by check_transition_group
Spec == Init /\ [][Next]_vars

\* one batch, validated by validate_batch
SpecBatch == Init /\ [][NextBatch]_vars

NextPatterns ==
    \/ \E t \in PatternTexts : Generate(t)
    \/ CheckGroup

\* one group worded for the stylistic and the flexible rule
SpecPatterns == Init /\ [][NextPatterns]_vars

NextImport ==
    \/ Import
    \/ \E t \in { ParAilleurs, ParContreEnfin } : Generate(t)
    \/ CheckGroup
    \/ ValidateBatch
    \/ Tokenize
    \/ ExtractNgrams(2)

\* the import of the module, with or without its resources, then the calls
SpecImport == InitImport /\ [][NextImport]_vars

NextCalls ==
    \/ Tokenize
    \/ \E n \in {2, 3} : ExtractNgrams(n)
    \/ CheckGroup
    \/ ValidateBatch

\* the callers hold their inputs and call the four functions in any order
SpecCalls == InitCalls /\ [][NextCalls]_vars

NextParallel ==
    \/ \E filename \in WorkerFilenames, group \in WorkerGroups :
          AddOutput(filename, group)
    \/ Dispatch
    \/ \E i \in 1..MaxBatch : CheckOne(i)
    \/ Merge

\* one batch, checked by workers in any order
SpecParallel == Init /\ [][NextParallel]_vars

NextRuns ==
    \/ \E filename \in WorkerFilenames, group \in RunGroups :
          AddOutput(filename, group)
    \/ ValidateBatch
    \/ Rerun

\* one batch, validated in two runs of the process
SpecRuns == Init /\ [][NextRuns]_vars

NextBaseline ==
    \/ \E t \in BaselineTexts : Generate(t)
    \/ CheckGroup

\* one group made of transitions with nothing to report
SpecBaseline == Init /\ [][NextBaseline]_vars

\* the module imported with french_stopwords.txt listing any of a few words
InitRegistre ==
    /\ files = ResourceFiles
    /\ imported = TRUE
    /\ FRENCH_STOPWORDS \in { load_stopwords(f) : f \in RegistreStopwordFiles }
    /\ STYLISTIC_EXPRESSIONS = load_stylistic_expressions(StylisticFile)
    /\ set_order \in iteration_orders(load_stylistic_expressions(StylisticFile))
    /\ NoCalls

NextRegistre ==
    \/ \E t \in RegistreTexts : Generate(t)
    \/ CheckGroup

\* one group made of the transitions of the fourth demo group
SpecRegistre == InitRegistre /\ [][NextRegistre]_vars

NextDirection ==
    \/ \E t \in DirectionTexts : Generate(t)
    \/ CheckGroup

\* one group made of the transitions of the second demo group
SpecDirection == Init /\ [][NextDirection]_vars

NextOrder ==
    \/ \E t \in OrderTexts : Generate(t)
    \/ CheckGroup

\* one group that grows by one transition at a time
SpecOrder == Init /\ [][NextOrder]_vars

NextDisplay ==
    \/ \E filename \in WorkerFilenames, group \in DisplayGroups :
          AddOutput(filename, group)
    \/ ValidateBatch
    \/ Display

\* one batch, validated by validate_batch and shown by display_validation_results
SpecDisplay == Init /\ [][NextDisplay]_vars

NextEdge ==
    \/ \E filename \in Filenames, group \in EdgeGroups : AddOutput(filename, group)
    \/ ValidateBatch

\* one batch of groups at the edges of the input, validated by validate_batch
SpecEdge == Init /\ [][NextEdge]_vars

NextTokenize ==
    \/ \E c \in Alphabet : Type(c)
    \/ Tokenize

\* one text, tokenized by tokenize
SpecTokenize == Init /\ [][NextTokenize]_vars

NextNgrams ==
    \/ \E word \in Vocabulary : AddWord(word)
    \/ \E n \in 0..MaxWindow : ExtractNgrams(n)

\* one list of words, windowed by extract_ngrams
SpecNgrams == Init /\ [][NextNgrams]_vars

(***************************************************************************)
(* The report of validate_batch.                                           *)
(***************************************************************************)
repetition_affected == results.violations_summary.repetition.affected_outputs
violated_words == results.violations_summary.repetition.violated_words
enfin_affected == results.violations_summary.enfin_misplaced.affected_outputs

\* the positions of the batch whose record has the key k
positions_with(k) ==
    { i \in DOMAIN results.details : k \in DOMAIN results.details[i].violations }

\* the list is in ascending lexicographic order without a duplicate
strictly_ascending(list) ==
    \A i \in 1..(Len(list) - 1) : str_lt(list[i], list[i + 1])

\* C1: outputs_with_violations is the size of the union of the repetition
\* affected keys and the enfin_misplaced affected keys, so it is not the sum
\* of the two counts when a key is in both.
C1_UnionInvariant ==
    validated =>
        /\ results.outputs_with_violations =
               Cardinality(elements(repetition_affected) \cup elements(enfin_affected))
        /\ elements(repetition_affected) \cap elements(enfin_affected) # {} =>
               results.outputs_with_violations #
                   Len(repetition_affected) + Len(enfin_affected)

\* C1 witness: a validated batch with a key affected by both rules and a key
\* affected by one only.
C1_Witness ==
    /\ validated
    /\ elements(repetition_affected) \cap elements(enfin_affected) # {}
    /\ elements(repetition_affected) # elements(enfin_affected)

\* C2: details has one entry per input pair, in input order, with the key
\* and the group of the pair, whatever the violations and also when a key
\* occurs twice.
C2_DetailsFollowInput ==
    validated =>
        /\ Len(results.details) = Len(batch_outputs)
        /\ results.total_outputs = Len(batch_outputs)
        /\ \A i \in DOMAIN batch_outputs :
              /\ results.details[i].output_id = batch_outputs[i][1]
              /\ results.details[i].transitions = batch_outputs[i][2]

\* C2 witness: a validated batch in which one key occurs twice, with
\* different groups, one of them violating.
C2_Witness ==
    /\ validated
    /\ Len(batch_outputs) = 2
    /\ batch_outputs[1][1] = batch_outputs[2][1]
    /\ batch_outputs[1][2] # batch_outputs[2][2]
    /\ results.details[1].violations = empty_dict
    /\ results.details[2].violations # empty_dict

\* C3: the summary is that of the per-group records: the affected keys of a
\* kind are the keys of the records with that kind, each count is the length
\* of its list, violated_words holds the values of all repetition lists, and
\* each record is check_transition_group of its group.
C3_SummaryOfRecords ==
    validated =>
        /\ elements(repetition_affected) =
               { batch_outputs[i][1] : i \in positions_with("repetition") }
        /\ elements(enfin_affected) =
               { batch_outputs[i][1] : i \in positions_with("enfin_misplaced") }
        /\ results.violations_summary.repetition.count = Len(repetition_affected)
        /\ results.violations_summary.enfin_misplaced.count = Len(enfin_affected)
        /\ elements(violated_words) =
               UNION { elements(results.details[i].violations["repetition"]) :
                           i \in positions_with("repetition") }
        /\ \A i \in DOMAIN batch_outputs :
               results.details[i].violations = check_transition_group(batch_outputs[i][2])

\* C3 witness: a validated batch with a group that has only enfin_misplaced
\* and a group that has only a repetition, under different keys.
C3_Witness ==
    /\ validated
    /\ Len(batch_outputs) = 2
    /\ batch_outputs[1][1] # batch_outputs[2][1]
    /\ DOMAIN results.details[1].violations = {"enfin_misplaced"}
    /\ DOMAIN results.details[2].violations = {"repetition"}

\* C4: the three summary lists are in ascending lexicographic order and
\* hold no element twice.
C4_SummaryListsSorted ==
    validated =>
        /\ strictly_ascending(repetition_affected)
        /\ strictly_ascending(violated_words)
        /\ strictly_ascending(enfin_affected)

\* C4 witness: two affected keys given in descending order, one a file name
\* and one a sequence number, and two violated words.
C4_Witness ==
    /\ validated
    /\ Len(batch_outputs) = 2
    /\ str_lt(batch_outputs[2][1], batch_outputs[1][1])
    /\ Len(batch_outputs[1][1]) < Len(batch_outputs[2][1])
    /\ Len(repetition_affected) = 2
    /\ Len(enfin_affected) = 2
    /\ Len(violated_words) >= 2

(***************************************************************************)
(* The record of check_transition_group.                                   *)
(***************************************************************************)
\* the token lists of the transitions of the group
tokens_of(ts) == <<>> \o [i \in DOMAIN ts |-> tokenize(ts[i])]

\* every transition a caller passes
AllTexts ==
    Texts \cup PatternTexts \cup BaselineTexts \cup RegistreTexts \cup DirectionTexts

\* every token a transition of a caller can hold
Tokens == UNION { elements(tokenize(t)) : t \in Texts \cup PatternTexts }

\* every token a transition of the examples holds
ExampleTokens ==
    UNION { elements(tokenize(t)) :
                t \in BaselineTexts \cup RegistreTexts \cup DirectionTexts }

\* the most tokens a transition of a caller holds
MostTokens == CHOOSE n \in 0..30 : /\ \A t \in AllTexts : Len(tokenize(t)) <= n
                                   /\ \E t \in AllTexts : Len(tokenize(t)) = n

\* whether one of the four repetition rules reports something for ts
repetition_triggered(ts) ==
    \/ repeated_first_words(ts) # <<>>
    \/ repeated_content_words(ts) # <<>>
    \/ check_stylistic_patterns(ts) # <<>>
    \/ check_flexible_patterns(ts) # <<>>

\* the values of the repetition list of the record (none without the key)
reported ==
    IF "repetition" \in DOMAIN violations THEN elements(violations["repetition"]) ELSE {}

\* C5: the record has a key only for a kind that triggered: repetition only
\* with a non-empty list, enfin_misplaced only with the value TRUE, and the
\* record is the empty dict exactly when no rule triggered.
C5_KeysOnlyWhenTriggered ==
    checked =>
        /\ DOMAIN violations \subseteq {"repetition", "enfin_misplaced"}
        /\ "repetition" \in DOMAIN violations <=> repetition_triggered(transitions)
        /\ "repetition" \in DOMAIN violations => violations["repetition"] # <<>>
        /\ "enfin_misplaced" \in DOMAIN violations <=> enfin_loop(transitions)
        /\ "enfin_misplaced" \in DOMAIN violations => violations["enfin_misplaced"] = TRUE
        /\ violations = empty_dict <=>
               ~repetition_triggered(transitions) /\ ~enfin_loop(transitions)

\* C5 witness: a checked group of three transitions whose record has the key
\* enfin_misplaced and not the key repetition.
C5_Witness ==
    /\ checked
    /\ Len(transitions) = 3
    /\ DOMAIN violations = {"enfin_misplaced"}

\* the number of transitions of the group whose first token is w
first_token_count(w) ==
    Cardinality({ i \in DOMAIN transitions :
        LET words == tokenize(transitions[i]) IN words # <<>> /\ words[1] = w })

\* C6: the first-word rule reports a token if and only if it is the first
\* token of at least 2 transitions of the group, and then once, stopword or
\* not; what it reports is in the repetition list of the record.
C6_FirstWordRule ==
    checked =>
        LET rfw == repeated_first_words(transitions)
        IN  /\ \A w \in Tokens \cup elements(rfw) :
                  count_of(rfw, w) = IF first_token_count(w) >= 2 THEN 1 ELSE 0
            /\ elements(rfw) \subseteq reported

\* C6 witness: a checked group with a transition without tokens, in which the
\* stopword "par" is the first token of two transitions and is reported.
C6_Witness ==
    /\ checked
    /\ \E i \in DOMAIN transitions : tokenize(transitions[i]) = <<>>
    /\ <<"p","a","r">> \in FRENCH_STOPWORDS
    /\ first_token_count(<<"p","a","r">>) = 2
    /\ <<"p","a","r">> \in reported

\* the number of occurrences of w in the pool: at a position other than the
\* first of a transition, w not being a stopword
pool_count(w) ==
    LET toks == tokens_of(transitions)
    IN  IF w \in FRENCH_STOPWORDS THEN 0
        ELSE Cardinality({ p \in (DOMAIN toks) \X (2..MostTokens) :
                              p[2] <= Len(toks[p[1]]) /\ toks[p[1]][p[2]] = w })

\* C7: the content-word rule reports a word if and only if it occurs at
\* least 2 times in the pool, and then once; what it reports is in the
\* repetition list of the record.
C7_ContentWordRule ==
    checked =>
        LET rcw == repeated_content_words(transitions)
        IN  /\ \A w \in Tokens \cup elements(rcw) :
                  count_of(rcw, w) = IF pool_count(w) >= 2 THEN 1 ELSE 0
            /\ elements(rcw) \subseteq reported

\* C7 witness: a checked group in which "conclusion" is reported, being in
\* the pool once from each of two transitions, and in which "enfin" is once a
\* first token and once in the pool and is not reported.
C7_Witness ==
    /\ checked
    /\ Len(transitions) = 3
    /\ pool_count(<<"c","o","n","c","l","u","s","i","o","n">>) = 2
    /\ <<"c","o","n","c","l","u","s","i","o","n">> \in
           elements(repeated_content_words(transitions))
    /\ first_token_count(enfin) = 1
    /\ pool_count(enfin) = 1
    /\ enfin \notin reported

\* C8 as claimed: a group of 0 or 1 transitions reports neither a first-word
\* nor a content-word repetition.
C8_NoRepetitionBelowTwo ==
    (checked /\ Len(transitions) <= 1) =>
        /\ repeated_first_words(transitions) = <<>>
        /\ repeated_content_words(transitions) = <<>>

\* C8 amended: a group of 0 transitions reports neither; a group of 1
\* transition reports no first-word repetition, and reports a content word
\* exactly when the word occurs at least twice among the non-first tokens of
\* that transition and is no stopword.
C8_SingleTransition ==
    (checked /\ Len(transitions) <= 1) =>
        /\ repeated_first_words(transitions) = <<>>
        /\ Len(transitions) = 0 => repeated_content_words(transitions) = <<>>
        /\ Len(transitions) = 1 =>
               \A w \in Tokens \cup elements(repeated_content_words(transitions)) :
                   w \in elements(repeated_content_words(transitions)) <=>
                       /\ w \notin FRENCH_STOPWORDS
                       /\ LET words == tokenize(transitions[1])
                          IN  Cardinality({ j \in 2..Len(words) : words[j] = w }) >= 2

\* C8 witness: a checked group of one transition for which the content-word
\* rule reports a word.
C8_Witness ==
    /\ checked
    /\ Len(transitions) = 1
    /\ repeated_content_words(transitions) # <<>>
    /\ "repetition" \in DOMAIN violations

\* whether "enfin" is a token of the i-th transition of the group
has_enfin(i) ==
    LET words == tokenize(transitions[i])
    IN  \E j \in DOMAIN words : words[j] = enfin

\* C9: enfin_misplaced is set (to TRUE) if and only if a transition other
\* than the last one has the token "enfin".
C9_EnfinMisplaced ==
    checked =>
        /\ "enfin_misplaced" \in DOMAIN violations <=>
               \E i \in 1..(Len(transitions) - 1) : has_enfin(i)
        /\ "enfin_misplaced" \in DOMAIN violations => violations["enfin_misplaced"] = TRUE
        /\ Len(transitions) < 2 => "enfin_misplaced" \notin DOMAIN violations

\* C9 witness: a checked group with "enfin" in an earlier transition and in
\* the last one, for which enfin_misplaced is set.
C9_Witness ==
    /\ checked
    /\ Len(transitions) = 2
    /\ has_enfin(1)
    /\ has_enfin(2)
    /\ get_true(violations, "enfin_misplaced")

\* the number of occurrences of e among the bigrams and trigrams of the
\* transitions of the group
ngram_occurrences(e) ==
    LET toks == tokens_of(transitions)
    IN  Cardinality({ p \in (DOMAIN toks) \X (1..MostTokens) \X {2, 3} :
            /\ p[2] + p[3] - 1 <= Len(toks[p[1]])
            /\ join(SubSeq(toks[p[1]], p[2], p[2] + p[3] - 1)) = e })

\* C10: check_stylistic_patterns reports an expression if and only if it is
\* in the loaded set and occurs more than once among the bigrams and
\* trigrams of the group, and then once.
C10_StylisticRule ==
    checked =>
        LET sv == check_stylistic_patterns(transitions)
        IN  \A e \in STYLISTIC_EXPRESSIONS \cup elements(sv)
                        \cup elements(all_ngrams(transitions)) :
                count_of(sv, e) =
                    IF e \in STYLISTIC_EXPRESSIONS /\ ngram_occurrences(e) > 1
                    THEN 1 ELSE 0

\* C10 witness: a checked group in which one expression of the set occurs
\* twice and is reported, another occurs once and is not, and a bigram that
\* is not in the set occurs twice.
C10_Witness ==
    /\ checked
    /\ \E e \in STYLISTIC_EXPRESSIONS :
          /\ ngram_occurrences(e) = 2
          /\ e \in elements(check_stylistic_patterns(transitions))
          /\ e \in reported
    /\ \E e \in STYLISTIC_EXPRESSIONS :
          /\ ngram_occurrences(e) = 1
          /\ e \notin reported
    /\ \E e \in elements(all_ngrams(transitions)) \ STYLISTIC_EXPRESSIONS :
          ngram_occurrences(e) = 2

\* the positions of the transitions that hold e among their bigrams and
\* trigrams
transitions_with(e) ==
    LET toks == tokens_of(transitions)
    IN  { i \in DOMAIN toks :
            \E k \in 1..Len(toks[i]), n \in {2, 3} :
                /\ k + n - 1 <= Len(toks[i])
                /\ join(SubSeq(toks[i], k, k + n - 1)) = e }

\* C11 as stated: an expression of the set is in the repetition list when two
\* different transitions hold it, and the stylistic rule does not report it
\* when only one transition of the group holds it, however worded.
C11_OneTransitionNeverReported ==
    checked =>
        \A e \in STYLISTIC_EXPRESSIONS :
            /\ Cardinality(transitions_with(e)) >= 2 => e \in reported
            /\ Cardinality(transitions_with(e)) <= 1 =>
                   e \notin elements(check_stylistic_patterns(transitions))

\* C11: an expression of the set is in the repetition list when two different
\* transitions hold it, and also when a single transition holds it twice; the
\* stylistic rule does not report it when it occurs at most once among the
\* bigrams and trigrams of the group.
C11_StylisticOccurrences ==
    checked =>
        \A e \in STYLISTIC_EXPRESSIONS :
            /\ Cardinality(transitions_with(e)) >= 2 => e \in reported
            /\ ngram_occurrences(e) >= 2 => e \in reported
            /\ ngram_occurrences(e) <= 1 =>
                   e \notin elements(check_stylistic_patterns(transitions))

\* C11 witness: a checked group of two transitions in which only one holds an
\* expression of the set, holds it twice, and the expression is reported.
C11_Witness ==
    /\ checked
    /\ Len(transitions) = 2
    /\ \E e \in STYLISTIC_EXPRESSIONS :
          /\ Cardinality(transitions_with(e)) = 1
          /\ ngram_occurrences(e) = 2
          /\ e \in reported

\* the positions of the transitions whose lower-cased text the k-th template
\* matches
matching(k) ==
    { i \in DOMAIN transitions : re_search(patterns[k], lower(transitions[i])) }

\* the templates as the code writes them
template_sources == { patterns[k].source : k \in DOMAIN patterns }

\* C12: check_flexible_patterns reports a template, as the template string
\* itself and once, exactly when it matches the lower-cased text of at least
\* two transitions of the group; it reports nothing else, in the order of the
\* templates, and what it reports is in the repetition list of the record.
C12_FlexibleRule ==
    checked =>
        LET fv == check_flexible_patterns(transitions)
        IN  /\ \A k \in DOMAIN patterns :
                  count_of(fv, patterns[k].source) =
                      IF Cardinality(matching(k)) >= 2 THEN 1 ELSE 0
            /\ elements(fv) \subseteq template_sources
            /\ \A a, b \in DOMAIN fv :
                  a < b => \E k, l \in DOMAIN patterns :
                              /\ k < l
                              /\ fv[a] = patterns[k].source
                              /\ fv[b] = patterns[l].source
            /\ elements(fv) \subseteq reported
            /\ reported \cap template_sources \subseteq elements(fv)

\* C12 witness: a checked group in which two templates each match two
\* transitions, one of them only once lower-cased, and both are reported,
\* and a third template matches one transition and is not reported.
C12_Witness ==
    /\ checked
    /\ \E k, l, m \in DOMAIN patterns :
          /\ k < l
          /\ Cardinality(matching(k)) = 2
          /\ Cardinality(matching(l)) = 2
          /\ \E i \in matching(k) : ~re_search(patterns[k], transitions[i])
          /\ Cardinality(matching(m)) = 1
          /\ check_flexible_patterns(transitions) =
                 << patterns[k].source, patterns[l].source >>
          /\ patterns[k].source \in reported
          /\ patterns[m].source \notin reported

\* C13: tokenize is stable under re-tokenization: the tokens of a text,
\* joined by single spaces and tokenized again, are the same tokens.
C13_TokenizeIdempotent ==
    tokenized => tokenize(join(the_words)) = the_words

\* C13 witness: a tokenized text with an apostrophe and an upper-case letter
\* that yields two tokens and differs from its tokens joined by a space.
C13_Witness ==
    /\ tokenized
    /\ Len(the_words) = 2
    /\ \E i, j \in DOMAIN the_text : the_text[i] = "'" /\ the_text[j] \in elements(UpperCase)
    /\ join(the_words) # the_text

\* the apostrophes of a text: the ASCII one and the typographic one
apostrophes == { "'", "<rsquo>" }

\* the punctuation characters of a text: those of ASCII, the typographic
\* apostrophe and the opening guillemet
punctuation_characters == punctuation \cup { "<rsquo>", "<laquo>" }

\* the text with every apostrophe made a space and every other punctuation
\* character taken out
without_marks(t) ==
    SelectSeq(<<>> \o [i \in DOMAIN t |-> IF t[i] \in apostrophes THEN " " ELSE t[i]],
              LAMBDA c : c \notin punctuation_characters)

\* C14 as stated: every token tokenize returns is non-empty, lower-case and
\* free of whitespace, apostrophes and punctuation characters; every
\* apostrophe separates words, the tokens keep their order of appearance,
\* and the empty string yields no token.
C14_TokensClean ==
    tokenized =>
        /\ \A i \in DOMAIN the_words :
              /\ the_words[i] # <<>>
              /\ \A j \in DOMAIN the_words[i] :
                    /\ the_words[i][j] \notin elements(UpperCase)
                    /\ the_words[i][j] \notin whitespace
                    /\ the_words[i][j] \notin apostrophes
                    /\ the_words[i][j] \notin punctuation_characters
        /\ the_words = split(lower(without_marks(the_text)))
        /\ the_text = <<>> => the_words = <<>>

\* C15: extract_ngrams returns max(0, L - n + 1) n-grams for L words and a
\* window of n, the i-th being the words i .. i+n-1 joined by single spaces,
\* in order, and nothing when n > L.
C15_NgramWindows ==
    extracted =>
        LET L == Len(the_words)
            expected == IF L - window + 1 > 0 THEN L - window + 1 ELSE 0
        IN  /\ Len(the_ngrams) = expected
            /\ \A i \in 1..expected :
                  the_ngrams[i] = join(SubSeq(the_words, i, i + window - 1))
            /\ window > L => the_ngrams = <<>>

\* C15 witness: the bigrams of four words, three of them, extracted.
C15_Witness ==
    /\ extracted
    /\ Len(the_words) = 4
    /\ window = 2
    /\ Len(the_ngrams) = 3
    /\ the_ngrams[3] = the_words[3] \o <<" ">> \o the_words[4]

\* C16 as stated: validate_batch does not raise on a batch with a group that
\* holds a transition that is no str.
C16_MalformedTolerated ==
    (\E i \in DOMAIN batch_outputs :
        \E j \in DOMAIN batch_outputs[i][2] : batch_outputs[i][2][j] = None)
    => raised = ""

\* a group that is not empty and whose transitions are all str of whitespace
blank_only(group) ==
    /\ group # <<>>
    /\ \A j \in DOMAIN group :
          /\ group[j] # None
          /\ \A k \in DOMAIN group[j] : group[j][k] \in whitespace

\* the report of a batch of n outputs without a violation
clean_summary ==
    [repetition |-> [count |-> 0, affected_outputs |-> <<>>, violated_words |-> <<>>],
     enfin_misplaced |-> [count |-> 0, affected_outputs |-> <<>>]]

\* C17: validate_batch returns for the empty batch the report with
\* total_outputs = 0, outputs_with_violations = 0, both counts 0 and every
\* list empty, and a group made only of empty or whitespace-only transitions
\* gets the empty violation record and is in no summary list.
C17_EmptyInputs ==
    validated =>
        /\ batch_outputs = <<>> =>
               results = [total_outputs |-> 0, outputs_with_violations |-> 0,
                          violations_summary |-> clean_summary, details |-> <<>>]
        /\ \A i \in DOMAIN batch_outputs :
               blank_only(batch_outputs[i][2]) =>
                   /\ check_transition_group(batch_outputs[i][2]) = empty_dict
                   /\ results.details[i].violations = empty_dict
        /\ (\A i \in DOMAIN batch_outputs : blank_only(batch_outputs[i][2])) =>
               /\ results.outputs_with_violations = 0
               /\ results.violations_summary = clean_summary

\* C17 witness: a validated batch of a group of an empty and a blank
\* transition, with the empty record, and of a group with a violation.
C17_Witness ==
    /\ validated
    /\ Len(batch_outputs) = 2
    /\ blank_only(batch_outputs[1][2])
    /\ Len(batch_outputs[1][2]) = 2
    /\ results.details[1].violations = empty_dict
    /\ results.outputs_with_violations = 1

\* C18: when a resource file is missing the import fails with the error of
\* open, the module is never imported and no operation of the validator
\* runs; neither set is ever the empty set in place of a missing file.
C18_LoadFailsFast ==
    /\ imported => files = ResourceFiles /\ raised = ""
    /\ raised # "" => raised = "FileNotFoundError" /\ files # ResourceFiles
    /\ ~imported =>
          /\ FRENCH_STOPWORDS = unbound
          /\ STYLISTIC_EXPRESSIONS = unbound
          /\ ~checked /\ violations = empty_dict
          /\ ~validated /\ results = empty_dict
          /\ ~tokenized
          /\ ~extracted
    /\ FRENCH_STOPWORDS # {}
    /\ STYLISTIC_EXPRESSIONS # {}

\* C18 witness: the stylistic file is missing, the import has failed with
\* FileNotFoundError, and the caller's group stays unchecked.
C18_Witness ==
    /\ files = { stopwords_name }
    /\ raised = "FileNotFoundError"
    /\ ~imported
    /\ Len(transitions) = 2
    /\ ~checked

\* C19: no call of tokenize, extract_ngrams, check_transition_group or
\* validate_batch changes the caller's text, list of words, group or batch,
\* nor the two module sets, which stay what the import loaded.
C19_NoSideEffects ==
    /\ [](/\ FRENCH_STOPWORDS \in { load_stopwords(f) : f \in StopwordFiles }
          /\ STYLISTIC_EXPRESSIONS = load_stylistic_expressions(StylisticFile))
    /\ [][/\ FRENCH_STOPWORDS' = FRENCH_STOPWORDS
          /\ STYLISTIC_EXPRESSIONS' = STYLISTIC_EXPRESSIONS
          /\ the_text' = the_text
          /\ transitions' = transitions
          /\ batch_outputs' = batch_outputs
          /\ (extracted' /\ ~extracted) => the_words' = the_words]_vars

\* C19 witness: the four functions have been called on a text, its tokens, a
\* group and a batch that are not empty.
C19_Witness ==
    /\ tokenized
    /\ extracted
    /\ checked
    /\ validated
    /\ Len(the_words) >= 2
    /\ the_ngrams # <<>>
    /\ Len(transitions) >= 2
    /\ Len(batch_outputs) = 2

\* C20: the report assembled from the groups checked in any order, one at a
\* time by any worker, with the summary lists sorted and details put back in
\* input order, is the report validate_batch returns for the batch; the
\* record made for a group is the record of that group checked alone.
C20_AnyOrderSameReport ==
    /\ merged # empty_dict => merged = validate_batch(batch_outputs)
    /\ \A k \in DOMAIN partial.order :
          partial.acc.details[k].violations =
              check_transition_group(batch_outputs[partial.order[k]][2])

\* C20 witness: two outputs with different repeated words, checked last
\* first and merged.
C20_Witness ==
    /\ merged # empty_dict
    /\ partial.order = <<2, 1>>
    /\ Len(merged.violations_summary.repetition.affected_outputs) = 2
    /\ elements(partial.acc.details[1].violations["repetition"])
          # elements(partial.acc.details[2].violations["repetition"])
    /\ merged.details[1].output_id = batch_outputs[1][1]

\* C21 as stated: two runs of validate_batch on the same batch and the same
\* resources return the same report, the order of every repetition list
\* included.
C21_RunsAgree ==
    (validated /\ previous # empty_dict) => results = previous

(***************************************************************************)
(* The groups of the examples.                                            *)
(***************************************************************************)
\* whether the group has nothing any of the five rules looks for
compliant ==
    /\ \A w \in ExampleTokens : first_token_count(w) <= 1
    /\ \A w \in ExampleTokens : pool_count(w) <= 1
    /\ \A e \in STYLISTIC_EXPRESSIONS : ngram_occurrences(e) <= 1
    /\ \A k \in DOMAIN patterns : Cardinality(matching(k)) <= 1
    /\ \A i \in DOMAIN transitions : has_enfin(i) => i = Len(transitions)

\* a group with nothing to report
BaselineGroup == << ParAilleursOnAnnonce, SurLePlanSecuritaire, EnfinUneNoteFinale >>

\* C22: check_transition_group returns the empty record for every group whose
\* first tokens are pairwise distinct, whose pooled non-first non-stopword
\* tokens hold no word twice, in which no stylistic expression occurs more
\* than once among the bigrams and trigrams, in which no flexible template is
\* matched by two transitions and in which "enfin" is a token only of the last
\* transition; in particular for ["Par ailleurs, on annonce que",
\* "Sur le plan securitaire,", "Enfin, une note finale"].
C22_Baseline ==
    /\ (checked /\ compliant) => violations = empty_dict
    /\ (checked /\ transitions = BaselineGroup) => violations = empty_dict

\* C22 witness: that group, checked, with "enfin" a
\* token of its last transition, and the empty record.
C22_Witness ==
    /\ checked
    /\ transitions = BaselineGroup
    /\ compliant
    /\ has_enfin(3)
    /\ violations = empty_dict

\* "dans"
dans == <<"d","a","n","s">>

\* C23 as stated: for ["Dans un autre registre,", "Dans la meme region,",
\* "Encore dans le domaine economique,"] the content-word rule reports at
\* least one word, whatever the stopword list.
C23_ContentRuleNonEmpty ==
    (checked /\ transitions = RegistreGroup) =>
        repeated_content_words(transitions) # <<>>

\* C23 amended: for that group the content-word rule reports nothing,
\* whatever the stopword list, because no word occurs twice among the tokens
\* after the first of each transition; the repetition list of the group is
\* ["dans"], reported by the first-word rule for the two transitions that
\* start with "Dans", and enfin_misplaced is not set.
C23_FirstWordRuleOnly ==
    (checked /\ transitions = RegistreGroup) =>
        /\ repeated_content_words(transitions) = <<>>
        /\ \A w \in ExampleTokens : pool_count(w) <= 1
        /\ repeated_first_words(transitions) = << dans >>
        /\ DOMAIN violations = {"repetition"}
        /\ violations["repetition"] = << dans >>

\* C23 witness: the group checked with a stopword list that has neither
\* "dans" nor "le", its repetition list being ["dans"].
C23_Witness ==
    /\ checked
    /\ transitions = RegistreGroup
    /\ dans \notin FRENCH_STOPWORDS
    /\ <<"l","e">> \notin FRENCH_STOPWORDS
    /\ pool_count(dans) = 1
    /\ violations["repetition"] = << dans >>

(***************************************************************************)
(* The repetition list, rule by rule.                                      *)
(***************************************************************************)
\* the repetition list of the record (empty without the key)
repetition_list ==
    IF "repetition" \in DOMAIN violations THEN violations["repetition"] ELSE <<>>

\* what the four rules report for the group, in the order the code runs them
rule_reports ==
    << repeated_first_words(transitions), repeated_content_words(transitions),
       check_stylistic_patterns(transitions), check_flexible_patterns(transitions) >>

\* the number of the reports that hold the value
holding(reports, v) ==
    Cardinality({ r \in DOMAIN reports : v \in elements(reports[r]) })

\* C25: the repetition list of a group is the concatenation, in this order,
\* of what the first-word rule, the content-word rule, the stylistic rule and
\* the flexible-pattern rule report, with no deduplication across rules: a
\* value reported by k of the rules is k times in the list.
C25_ConcatenationOfRules ==
    checked =>
        LET reports == rule_reports
            list == repetition_list
        IN  /\ list = reports[1] \o reports[2] \o reports[3] \o reports[4]
            /\ \A r \in DOMAIN reports : \A v \in elements(reports[r]) :
                   count_of(list, v) = holding(reports, v)
            /\ \A v \in elements(list) : holding(reports, v) >= 1

\* C25 witness: a checked group for which each of the four rules reports
\* something and "pour", a repeated first token and a repeated mid-sentence
\* token, is twice in the repetition list.
C25_Witness ==
    /\ checked
    /\ LET reports == rule_reports
       IN  /\ \A r \in DOMAIN reports : reports[r] # <<>>
           /\ holding(reports, <<"p","o","u","r">>) = 2
    /\ count_of(repetition_list, <<"p","o","u","r">>) = 2
    /\ repetition_list[1] = <<"p","o","u","r">>
    /\ repetition_list[3] = <<"p","o","u","r">>
    /\ Len(repetition_list) = 6

\* "prenons"
prenons == <<"p","r","e","n","o","n","s">>

\* C27: the first-token occurrences and the mid-sentence occurrences of a
\* word are counted in two separate pools, never added together: a
\* non-stopword that is once a first token and once in a non-first position
\* across the group is reported by neither the first-word rule nor the
\* content-word rule.
C27_SeparatePools ==
    checked =>
        \A w \in ExampleTokens :
            (w \notin FRENCH_STOPWORDS /\ first_token_count(w) = 1 /\ pool_count(w) = 1) =>
                /\ w \notin elements(repeated_first_words(transitions))
                /\ w \notin elements(repeated_content_words(transitions))
                /\ w \notin reported

\* C27 witness: ["Prenons la direction de Paris,", "Ensuite, prenons la
\* direction de Lyon,", "Enfin, une note sur Marseille"], checked: "prenons"
\* is once a first token and once mid-sentence and is not reported, while
\* "direction" is.
C27_Witness ==
    /\ checked
    /\ transitions = << PrenonsParis, EnsuitePrenonsLyon, EnfinUneNoteSurMarseille >>
    /\ prenons \notin FRENCH_STOPWORDS
    /\ first_token_count(prenons) = 1
    /\ pool_count(prenons) = 1
    /\ prenons \notin reported
    /\ <<"d","i","r","e","c","t","i","o","n">> \in reported

(***************************************************************************)
(* The count of outputs with violations.                                   *)
(***************************************************************************)
\* the positions of the batch whose record is not empty
violating_entries ==
    { i \in DOMAIN results.details : results.details[i].violations # empty_dict }

\* the keys of those positions
violating_keys == { results.details[i].output_id : i \in violating_entries }

\* whether no two pairs of the batch have the same key
distinct_keys ==
    \A i, j \in DOMAIN batch_outputs : batch_outputs[i][1] = batch_outputs[j][1] => i = j

\* C26 as stated: for every batch, also when two groups share a key,
\* outputs_with_violations is the number of entries of details whose record
\* is not empty, and it never exceeds total_outputs.
C26_CountsEntries ==
    validated =>
        /\ results.outputs_with_violations = Cardinality(violating_entries)
        /\ results.outputs_with_violations <= results.total_outputs

\* C26 amended: outputs_with_violations is the number of distinct keys among
\* the entries of details whose record is not empty; it is the number of
\* those entries when the keys of the batch are pairwise distinct and less
\* when two violating groups share a key, and it never exceeds total_outputs.
C26_CountsDistinctKeys ==
    validated =>
        /\ results.outputs_with_violations = Cardinality(violating_keys)
        /\ distinct_keys =>
               results.outputs_with_violations = Cardinality(violating_entries)
        /\ results.outputs_with_violations <= Cardinality(violating_entries)
        /\ results.outputs_with_violations <= results.total_outputs

\* C26 witness: a validated batch of two violating groups under one key,
\* counted once.
C26_Witness ==
    /\ validated
    /\ Len(batch_outputs) = 2
    /\ batch_outputs[1][1] = batch_outputs[2][1]
    /\ Cardinality(violating_entries) = 2
    /\ results.outputs_with_violations = 1
    /\ results.total_outputs = 2

(***************************************************************************)
(* The record of a group reordered, and of a group that grows.             *)
(***************************************************************************)
\* the values of the repetition list of a record (none without the key)
repetition_values(d) ==
    IF "repetition" \in DOMAIN d THEN elements(d["repetition"]) ELSE {}

\* the orders the transitions of a group of n can be put in
permutations(n) ==
    { p \in [1..n -> 1..n] : \A i, j \in 1..n : p[i] = p[j] => i = j }

\* the group in the order p
reordered(ts, p) == <<>> \o [i \in DOMAIN ts |-> ts[p[i]]]

\* C28: reordering the transitions of a group does not change the set of
\* values of its repetition list: for every permutation each of the four
\* repetition rules reports the same set of values, and the record has the
\* key repetition for the one order when it has it for the other; only
\* enfin_misplaced may depend on the order.
C28_PermutationInvariant ==
    checked =>
        \A p \in permutations(Len(transitions)) :
            LET ts == reordered(transitions, p)
                d == check_transition_group(ts)
            IN  /\ repetition_values(d) = reported
                /\ "repetition" \in DOMAIN d <=> "repetition" \in DOMAIN violations
                /\ elements(repeated_first_words(ts))
                       = elements(repeated_first_words(transitions))
                /\ elements(repeated_content_words(ts))
                       = elements(repeated_content_words(transitions))
                /\ elements(check_stylistic_patterns(ts))
                       = elements(check_stylistic_patterns(transitions))
                /\ elements(check_flexible_patterns(ts))
                       = elements(check_flexible_patterns(transitions))
                /\ DOMAIN d \ {"enfin_misplaced"} = DOMAIN violations \ {"enfin_misplaced"}

\* C28 witness: a checked group of three transitions, the first two alike
\* and "enfin" a token of the last only, with a repetition list and without
\* enfin_misplaced, that has enfin_misplaced in another order.
C28_Witness ==
    /\ checked
    /\ Len(transitions) = 3
    /\ transitions[1] = transitions[2]
    /\ has_enfin(3)
    /\ Cardinality(reported) >= 2
    /\ "enfin_misplaced" \notin DOMAIN violations
    /\ \E p \in permutations(3) :
           "enfin_misplaced" \in DOMAIN check_transition_group(reordered(transitions, p))

\* C29: violations are stable under appending: each value of the repetition
\* list of a group is in the repetition list of the group followed by one
\* more transition, enfin_misplaced stays set, and so a violating group never
\* becomes compliant by appending.
C29_StableUnderAppend ==
    [][ transitions' # transitions =>
          LET before == check_transition_group(transitions)
              after == check_transition_group(transitions')
          IN  /\ Len(transitions') = Len(transitions) + 1
              /\ SubSeq(transitions', 1, Len(transitions)) = transitions
              /\ repetition_values(before) \subseteq repetition_values(after)
              /\ "enfin_misplaced" \in DOMAIN before => "enfin_misplaced" \in DOMAIN after
              /\ before # empty_dict => after # empty_dict ]_vars

\* C29 witness: a checked group of three transitions whose first two already
\* had a repetition list and enfin_misplaced, and whose record has both keys
\* and one more repeated value.
C29_Witness ==
    /\ checked
    /\ Len(transitions) = 3
    /\ LET before == check_transition_group(SubSeq(transitions, 1, 2))
       IN  /\ DOMAIN before = {"repetition", "enfin_misplaced"}
           /\ repetition_values(before) \subseteq reported
           /\ repetition_values(before) # reported
    /\ DOMAIN violations = {"repetition", "enfin_misplaced"}

(***************************************************************************)
(* What display_validation_results emits.                                  *)
(***************************************************************************)
\* the number of records, and of elements, emitted before the first block
SummaryLength == 12

\* whether the log records carry the totals, then the counts and the
\* affected keys of each kind, of the report
logs_summary(logged, r) ==
    /\ Len(logged) >= SummaryLength
    /\ logged[2].text = "Total Outputs: " /\ logged[2].object = r.total_outputs
    /\ logged[3].text = "Outputs with Violations: "
    /\ logged[3].object = r.outputs_with_violations
    /\ logged[6].text = "Count: "
    /\ logged[6].object = r.violations_summary.repetition.count
    /\ logged[7].text = "Affected Files: "
    /\ logged[7].object = r.violations_summary.repetition.affected_outputs
    /\ logged[10].text = "Count: "
    /\ logged[10].object = r.violations_summary.enfin_misplaced.count
    /\ logged[11].text = "Affected Files: "
    /\ logged[11].object = r.violations_summary.enfin_misplaced.affected_outputs
    /\ \A i \in 1..SummaryLength :
           logged[i].text \notin {"File: ", "Violations: ", "No violations found"}

\* whether the three log records are the block of the entry of details
logs_block(block, detail) ==
    /\ block[1].text = "File: " /\ block[1].object = detail.output_id
    /\ block[2].text = "Transitions: " /\ block[2].object = detail.transitions
    /\ IF detail.violations # empty_dict
       THEN block[3].text = "Violations: " /\ block[3].object = detail.violations
       ELSE block[3].text = "No violations found"
    /\ Cardinality({ i \in 1..3 :
           block[i].text \in {"Violations: ", "No violations found"} }) = 1

\* whether the elements carry the totals, then the counts and the affected
\* keys of each kind, of the report
shows_summary(shown, r) ==
    /\ Len(shown) >= SummaryLength
    /\ shown[2].label = "Total Files" /\ shown[2].object = r.total_outputs
    /\ shown[3].label = "Files with Violations"
    /\ shown[3].object = r.outputs_with_violations
    /\ shown[6].label = "Count"
    /\ shown[6].object = r.violations_summary.repetition.count
    /\ shown[7].label = "Affected Files:"
    /\ shown[7].object = r.violations_summary.repetition.affected_outputs
    /\ shown[10].label = "Count"
    /\ shown[10].object = r.violations_summary.enfin_misplaced.count
    /\ shown[11].label = "Affected Files:"
    /\ shown[11].object = r.violations_summary.enfin_misplaced.affected_outputs
    /\ \A i \in 1..SummaryLength : shown[i].call # "expander"

\* whether the element is the block of the entry of details
shows_block(block, detail) ==
    /\ block.call = "expander"
    /\ block.label = "File: " /\ block.object = detail.output_id
    /\ Len(block.inside) = 2
    /\ block.inside[1].label = "**Transitions:**"
    /\ block.inside[1].object = detail.transitions
    /\ IF detail.violations # empty_dict
       THEN /\ block.inside[2].label = "**Violations:**"
            /\ block.inside[2].object = detail.violations
       ELSE /\ block.inside[2].call = "success"
            /\ block.inside[2].label = "No violations found"
    /\ Cardinality({ i \in 1..2 :
           block.inside[i].label \in {"**Violations:**", "No violations found"} }) = 1

\* C24: display_validation_results only reads the report: a call leaves the
\* report and the batch unchanged and adds, to the log stream and to the
\* page alike, the totals, the count and the affected keys of each kind, and
\* then one block per entry of details in the order of details, each block
\* with the violations of its entry when that record is not empty and with
\* "No violations found" when it is empty, never both and never neither.
C24_DisplayOnlyReads ==
    [][ sink_vars' # sink_vars =>
          LET logged == SubSeq(log_stream', Len(log_stream) + 1, Len(log_stream'))
              shown == SubSeq(display_surface', Len(display_surface) + 1,
                              Len(display_surface'))
              n == Len(results.details)
          IN  /\ results' = results
              /\ batch_outputs' = batch_outputs
              /\ SubSeq(log_stream', 1, Len(log_stream)) = log_stream
              /\ SubSeq(display_surface', 1, Len(display_surface)) = display_surface
              /\ Len(logged) = SummaryLength + 3 * n
              /\ logs_summary(logged, results)
              /\ \A i \in 1..n :
                     logs_block(SubSeq(logged, SummaryLength + 3 * i - 2,
                                       SummaryLength + 3 * i),
                                results.details[i])
              /\ Len(shown) = SummaryLength + n
              /\ shows_summary(shown, results)
              /\ \A i \in 1..n :
                     shows_block(shown[SummaryLength + i], results.details[i]) ]_vars

\* C24 witness: a report of two entries, the first with violations and the
\* second without, displayed: the log stream ends with "No violations found"
\* and the page with a success element, after blocks that show violations.
C24_Witness ==
    /\ validated
    /\ Len(results.details) = 2
    /\ results.details[1].violations # empty_dict
    /\ results.details[2].violations = empty_dict
    /\ Len(log_stream) = SummaryLength + 6
    /\ log_stream[SummaryLength + 3].text = "Violations: "
    /\ log_stream[Len(log_stream)].text = "No violations found"
    /\ Len(display_surface) = SummaryLength + 2
    /\ display_surface[SummaryLength + 1].inside[2].label = "**Violations:**"
    /\ display_surface[Len(display_surface)].inside[2].call = "success"

====
